---- MODULE Spec2Model ----
(***************************************************************************)
(* Model of the golf_shaft_analyzer ingestion pipeline:                    *)
(*   src/src/ingestion/schemas.py     ShaftSpec, FLEX_ORDER                *)
(*   src/src/ingestion/normalizer.py  field, row and batch normalizers     *)
(*   src/src/ingestion/load_data.py   load_and_normalize, main, store      *)
(*                                                                         *)
(* Text is a sequence of one-character strings, so that strip(), lower(),  *)
(* replace(), the regular expression and the f-string of display_name are  *)
(* computed character by character.  Numbers are integers: the float       *)
(* fields of the program are modelled on their integer values.             *)
(***************************************************************************)
EXTENDS Integers, Sequences, FiniteSets, TLC

VARIABLES
    rawDir,       \* the tables of data/raw/*.csv, in glob order
    dbFile,       \* the store file: Missing, or the list of dumped records
    pc,           \* position of main()
    csvIdx,       \* main(): index of the next csv_file of the for loop
    all_specs,    \* main(): all_specs
    unique_specs, \* main(): unique_specs
    op,           \* the function applied last by a function-level specification
    arg,          \* its argument
    ret           \* what it returned or raised

vars == <<rawDir, dbFile, pc, csvIdx, all_specs, unique_specs, op, arg, ret>>

buildVars == <<rawDir, dbFile, pc, csvIdx, all_specs, unique_specs>>

(***************************************************************************)
(* Characters and text                                                     *)
(***************************************************************************)

LowerLetters ==
    <<"a","b","c","d","e","f","g","h","i","j","k","l","m",
      "n","o","p","q","r","s","t","u","v","w","x","y","z">>

UpperLetters ==
    <<"A","B","C","D","E","F","G","H","I","J","K","L","M",
      "N","O","P","Q","R","S","T","U","V","W","X","Y","Z">>

Digits == <<"0","1","2","3","4","5","6","7","8","9">>

\* The characters of the model in code point order (str comparison, sorting).
Alphabet ==
    <<"\t", "\n", " ", "-", ".", "/">> \o Digits \o UpperLetters \o <<"_">> \o LowerLetters

\* LET x == v IN Body(x), with v evaluated once
Let(v, Body(_)) == CHOOSE y \in {Body(x) : x \in {v}} : TRUE

\* A sequence given as a function, as a tuple
AsSeq(f) == f \o <<>>

Range(f) == {f[i] : i \in DOMAIN f}

\* The least and the greatest number of a non-empty set
MinOf(S) == CHOOSE i \in S : \A j \in S : i <= j

MaxOf(S) == CHOOSE i \in S : \A j \in S : i >= j

IndexOf(seq, c) == CHOOSE i \in DOMAIN seq : seq[i] = c

\* ord(c)
CharCode(c) == IndexOf(Alphabet, c)

\* str.isspace() of one character, as str.strip() uses it
IsSpace(c) == c \in {" ", "\t", "\n"}

IsDigit(c) == c \in Range(Digits)

\* str.lower() of one character
LowerChar(c) == IF c \in Range(UpperLetters) THEN LowerLetters[IndexOf(UpperLetters, c)] ELSE c

\* str.upper() of one character
UpperChar(c) == IF c \in Range(LowerLetters) THEN UpperLetters[IndexOf(LowerLetters, c)] ELSE c

\* str.lower()
Lower(s) == AsSeq([i \in 1..Len(s) |-> LowerChar(s[i])])

\* str.upper()
Upper(s) == AsSeq([i \in 1..Len(s) |-> UpperChar(s[i])])

\* str.capitalize() restricted to the first character (the input "Stiff")
Capitalize(s) == AsSeq([i \in 1..Len(s) |-> IF i = 1 THEN UpperChar(s[i]) ELSE s[i]])

\* The positions of s that hold no whitespace
Inked(s) == {i \in 1..Len(s) : ~IsSpace(s[i])}

\* str.strip(): s from its first to its last character that is no whitespace
Strip(s) == IF Inked(s) = {} THEN <<>> ELSE SubSeq(s, MinOf(Inked(s)), MaxOf(Inked(s)))

\* str.replace(" ", "")
RemoveSpaces(s) == SelectSeq(s, LAMBDA c : c # " ")

\* s < t for str: lexicographic on code points
RECURSIVE StrLess(_, _)
StrLess(s, t) ==
    IF t = <<>> THEN FALSE
    ELSE IF s = <<>> THEN TRUE
    ELSE IF Head(s) = Head(t) THEN StrLess(Tail(s), Tail(t))
    ELSE CharCode(Head(s)) < CharCode(Head(t))

EndsWith(s, suffix) ==
    /\ Len(suffix) <= Len(s)
    /\ SubSeq(s, Len(s) - Len(suffix) + 1, Len(s)) = suffix

\* "a  b" in s
HasDoubleSpace(s) == \E i \in 1..(Len(s) - 1) : s[i] = " " /\ s[i + 1] = " "

(***************************************************************************)
(* schemas.py: the enumerations                                            *)
(***************************************************************************)

Flex == {"Ladies", "Senior", "Regular", "Stiff", "X-Stiff", "TX"}

\* Flex(...).value as text
FlexValue(f) ==
    CASE f = "Ladies" -> <<"L","a","d","i","e","s">>
      [] f = "Senior" -> <<"S","e","n","i","o","r">>
      [] f = "Regular" -> <<"R","e","g","u","l","a","r">>
      [] f = "Stiff" -> <<"S","t","i","f","f">>
      [] f = "X-Stiff" -> <<"X","-","S","t","i","f","f">>
      [] f = "TX" -> <<"T","X">>

ClubType == {"woods", "fairway", "hybrid", "iron", "wedge", "putter"}

Profile == {"Low", "Low-Mid", "Mid", "Mid-High", "High"}

TipStiffness == {"Soft", "Medium", "Firm", "Very Firm"}

\* Python's None where an enumeration value is optional
NoValue == "None"

(***************************************************************************)
(* What a call or a function returns: exc is "none" or the exception class *)
(***************************************************************************)

Returned(v) == [exc |-> "none", val |-> v, msg |-> ""]

\* raise e(msg)
RaisedMsg(e, m) == [exc |-> e, val |-> NoValue, msg |-> m]

Raised(e) == RaisedMsg(e, "")

(***************************************************************************)
(* normalizer.py: normalize_flex                                           *)
(***************************************************************************)

FLEX_MAP ==
    (<<"l">> :> "Ladies")
 @@ (<<"l","a","d","i","e","s">> :> "Ladies")
 @@ (<<"a">> :> "Senior")
 @@ (<<"s","r">> :> "Senior")
 @@ (<<"s","e","n","i","o","r">> :> "Senior")
 @@ (<<"r">> :> "Regular")
 @@ (<<"r","e","g","u","l","a","r">> :> "Regular")
 @@ (<<"s">> :> "Stiff")
 @@ (<<"s","t","i","f","f">> :> "Stiff")
 @@ (<<"x">> :> "X-Stiff")
 @@ (<<"x","s">> :> "X-Stiff")
 @@ (<<"x","-","s","t","i","f","f">> :> "X-Stiff")
 @@ (<<"x","s","t","i","f","f">> :> "X-Stiff")
 @@ (<<"t","x">> :> "TX")
 @@ (<<"x","x","x">> :> "TX")

\* The alternatives of the group (s|r|x|tx|xs|a|l), in the order the regex tries them
FlexCodeAlternatives == <<<<"s">>, <<"r">>, <<"x">>, <<"t","x">>, <<"x","s">>, <<"a">>, <<"l">>>>

\* The character class [0-9.]
IsWeightChar(c) == IsDigit(c) \/ c = "."

\* The matches <<i, j, k>> of [0-9.]+(s|r|x|tx|xs|a|l)$ in s: [0-9.]+ on s[i..j],
\* alternative k on the rest of s up to its end.
FlexRegexMatches(s) ==
    {m \in (1..Len(s)) \X (1..Len(s)) \X DOMAIN FlexCodeAlternatives :
        /\ m[1] <= m[2]
        /\ \A p \in m[1]..m[2] : IsWeightChar(s[p])
        /\ SubSeq(s, m[2] + 1, Len(s)) = FlexCodeAlternatives[m[3]]}

\* The match re.search reports: leftmost start, then the longest [0-9.]+ that
\* lets the rest match (greedy, backtracking), then the first alternative.
FlexRegexPrefers(m, n) ==
    \/ m[1] < n[1]
    \/ m[1] = n[1] /\ m[2] > n[2]
    \/ m[1] = n[1] /\ m[2] = n[2] /\ m[3] <= n[3]

\* re.search(r"[0-9.]+(s|r|x|tx|xs|a|l)$", s): group(1), or <<>> for no match
FlexRegexSearch(s) ==
    Let(FlexRegexMatches(s), LAMBDA ms :
        IF ms = {} THEN <<>>
        ELSE FlexCodeAlternatives[(CHOOSE m \in ms : \A n \in ms : FlexRegexPrefers(m, n))[3]])

\* The cleaning of normalize_flex without the lower-casing
FlexCleaned_NoLower(raw) == Let(Strip(raw), LAMBDA t : RemoveSpaces(t))

\* cleaned = raw.strip().lower().replace(" ", "")
FlexCleaned(raw) == Let(Strip(raw), LAMBDA t : Let(Lower(t), LAMBDA u : RemoveSpaces(u)))

\* if cleaned in FLEX_MAP: return FLEX_MAP[cleaned]
\* match = re.search(...); if match: return FLEX_MAP.get(match.group(1), Flex.STIFF)
\* raise ValueError
FlexOfCleaned(cleaned) ==
    IF cleaned \in DOMAIN FLEX_MAP THEN Returned(FLEX_MAP[cleaned])
    ELSE Let(FlexRegexSearch(cleaned), LAMBDA code :
             IF code # <<>>
             THEN Returned(IF code \in DOMAIN FLEX_MAP THEN FLEX_MAP[code] ELSE "Stiff")
             ELSE RaisedMsg("ValueError", "Cannot normalize flex"))

normalize_flex(raw) == Let(FlexCleaned(raw), LAMBDA cleaned : FlexOfCleaned(cleaned))

(***************************************************************************)
(* Cell values: what row.get(column) gives for a table read by pandas.     *)
(*   none  the column is not in the table (dict.get returns None)          *)
(*   nan   an empty cell (float NaN)                                       *)
(*   num   a numeric cell, n its value                                     *)
(*   str   a text cell, s its characters                                   *)
(***************************************************************************)

None == [k |-> "none", n |-> 0, s |-> <<>>]

NaN == [k |-> "nan", n |-> 0, s |-> <<>>]

Num(x) == [k |-> "num", n |-> x, s |-> <<>>]

Str(t) == [k |-> "str", n |-> 0, s |-> t]

\* bool(v): None, 0 and "" are falsy; NaN and every other value are truthy
Truthy(v) == \/ v.k = "nan"
             \/ v.k = "num" /\ v.n # 0
             \/ v.k = "str" /\ v.s # <<>>

\* a or b or c ...: the first truthy operand, else the last one
RECURSIVE OrChain(_)
OrChain(vs) ==
    IF Len(vs) = 1 \/ Truthy(Head(vs)) THEN Head(vs) ELSE OrChain(Tail(vs))

\* row.get(col)
RowGet(row, col) == IF col \in DOMAIN row THEN row[col] ELSE None

\* row.get(c1) or row.get(c2) or ...
RowFirst(row, cols) == OrChain(AsSeq([i \in 1..Len(cols) |-> RowGet(row, cols[i])]))

\* The decimal digits of a natural number
RECURSIVE NatText(_)
NatText(x) ==
    IF x < 10 THEN <<Digits[x + 1]>> ELSE NatText(x \div 10) \o <<Digits[(x % 10) + 1]>>

\* str(v) of a cell value
StrOf(v) ==
    CASE v.k = "str" -> v.s
      [] v.k = "nan" -> <<"n","a","n">>
      [] v.k = "none" -> <<"N","o","n","e">>
      [] v.k = "num" -> IF v.n < 0 THEN <<"-">> \o NatText(-v.n) ELSE NatText(v.n)

\* The value of a run of decimal digits
RECURSIVE DigitsValue(_)
DigitsValue(s) ==
    IF s = <<>> THEN 0
    ELSE 10 * DigitsValue(SubSeq(s, 1, Len(s) - 1)) + (IndexOf(Digits, s[Len(s)]) - 1)

IsDigitRun(s) == s # <<>> /\ \A i \in 1..Len(s) : IsDigit(s[i])

\* float(text): surrounding whitespace ignored, an optional sign, digits.
\* NoFloat when Python raises ValueError.
NoFloat == [ok |-> FALSE, n |-> 0]

ParseSigned(t) ==
    LET neg == t # <<>> /\ Head(t) = "-"
        body == IF t # <<>> /\ Head(t) \in {"-", "+"} THEN Tail(t) ELSE t
    IN  IF IsDigitRun(body)
        THEN [ok |-> TRUE, n |-> IF neg THEN -DigitsValue(body) ELSE DigitsValue(body)]
        ELSE NoFloat

ParseFloat(text) == Let(Strip(text), LAMBDA t : ParseSigned(t))

\* safe_float(val): a num cell, or None
safe_float(val) ==
    IF val.k = "none" \/ val.k = "nan" THEN None
    ELSE IF val.k = "num" THEN val
    ELSE Let(ParseFloat(val.s), LAMBDA f : IF f.ok THEN Num(f.n) ELSE None)

(***************************************************************************)
(* normalizer.py: the optional profile normalizers                         *)
(***************************************************************************)

ProfileKeys ==
    (<<"l","o","w">> :> "Low")
 @@ (<<"l","o","w","-","m","i","d">> :> "Low-Mid")
 @@ (<<"l","o","w","/","m","i","d">> :> "Low-Mid")
 @@ (<<"m","i","d">> :> "Mid")
 @@ (<<"m","i","d","-","h","i","g","h">> :> "Mid-High")
 @@ (<<"m","i","d","/","h","i","g","h">> :> "Mid-High")
 @@ (<<"h","i","g","h">> :> "High")

LAUNCH_MAP == ProfileKeys

SPIN_MAP == ProfileKeys

KICKPOINT_MAP ==
    ProfileKeys
 @@ (<<"f","r","o","n","t">> :> "Low")
 @@ (<<"f","r","o","n","t","-","m","i","d">> :> "Low-Mid")
 @@ (<<"r","e","a","r">> :> "High")

TIP_STIFF_MAP ==
    (<<"s","o","f","t">> :> "Soft")
 @@ (<<"m","e","d","i","u","m">> :> "Medium")
 @@ (<<"m","e","d">> :> "Medium")
 @@ (<<"f","i","r","m">> :> "Firm")
 @@ (<<"v","e","r","y"," ","f","i","r","m">> :> "Very Firm")
 @@ (<<"e","x","t","r","a"," ","f","i","r","m">> :> "Very Firm")

\* dict.get(key): the value, or None
MapGet(map, key) == IF key \in DOMAIN map THEN map[key] ELSE NoValue

\* An optional normalizer that looks the trimmed text up as it is written
NormalizeOptional_NoLower(raw, map) ==
    IF ~Truthy(raw) \/ raw.k = "nan" THEN Returned(NoValue)
    ELSE IF raw.k = "num" THEN Raised("AttributeError")
    ELSE Returned(MapGet(map, Strip(raw.s)))

\* The body shared by normalize_launch, normalize_spin, normalize_kickpoint and
\* normalize_tip_stiffness:
\*     if not raw or pd.isna(raw): return None
\*     cleaned = raw.strip().lower()
\*     return MAP.get(cleaned)
\* A truthy number that is not NaN has no strip(): AttributeError.
NormalizeOptional(raw, map) ==
    IF ~Truthy(raw) \/ raw.k = "nan" THEN Returned(NoValue)
    ELSE IF raw.k = "num" THEN Raised("AttributeError")
    ELSE Let(Lower(Strip(raw.s)), LAMBDA cleaned : Returned(MapGet(map, cleaned)))

normalize_launch(raw) == NormalizeOptional(raw, LAUNCH_MAP)

normalize_spin(raw) == NormalizeOptional(raw, SPIN_MAP)

normalize_kickpoint(raw) == NormalizeOptional(raw, KICKPOINT_MAP)

normalize_tip_stiffness(raw) == NormalizeOptional(raw, TIP_STIFF_MAP)

(***************************************************************************)
(* schemas.py: ShaftSpec                                                   *)
(***************************************************************************)

\* weight_grams: Field(..., gt=0, lt=300)
WeightLimit == 300

\* length_inches: Field(None, gt=0, lt=60)
LengthLimit == 60

\* torque_degrees: Field(None, ge=0, lt=15)
TorqueLimit == 15

\* A str field with min_length=1 and the "after" validator strip_whitespace:
\* the length constraint is part of the field's own validation and is checked
\* on the value as given; the validator runs on the value that passed it.
NameFieldValid(v) == v.k = "str" /\ Len(v.s) >= 1

\* strip_whitespace(cls, v)
strip_whitespace(v) == Strip(v)

\* Optional[str]
OptionalStrValid(v) == v.k \in {"none", "str"}

\* A float field takes a number, or text that float() parses (lax mode)
FloatOf(v) ==
    IF v.k = "num" THEN [ok |-> TRUE, n |-> v.n]
    ELSE IF v.k = "str" THEN ParseFloat(v.s)
    ELSE NoFloat

\* A weight constraint without the upper limit
WeightValid_NoUpperLimit(v) == FloatOf(v).ok /\ FloatOf(v).n > 0

\* weight_grams: float = Field(..., gt=0, lt=300)
WeightValid(v) == FloatOf(v).ok /\ FloatOf(v).n > 0 /\ FloatOf(v).n < WeightLimit

\* length_inches: Optional[float] = Field(None, gt=0, lt=60)
LengthValid(v) == v.k = "none" \/ (FloatOf(v).ok /\ FloatOf(v).n > 0 /\ FloatOf(v).n < LengthLimit)

\* torque_degrees: Optional[float] = Field(None, ge=0, lt=15)
TorqueValid(v) == v.k = "none" \/ (FloatOf(v).ok /\ FloatOf(v).n >= 0 /\ FloatOf(v).n < TorqueLimit)

\* msrp_usd: Optional[float] = Field(None, ge=0)
MsrpValid(v) == v.k = "none" \/ (FloatOf(v).ok /\ FloatOf(v).n >= 0)

\* butt_diameter_inches, tip_diameter_inches: Optional[float], unconstrained
DiameterValid(v) == v.k \in {"none", "nan"} \/ FloatOf(v).ok

\* The value a float field stores
FloatStored(v) == IF v.k \in {"none", "nan"} THEN v ELSE Num(FloatOf(v).n)

\* Every constraint of the fields of ShaftSpec
ShaftSpecValid(a) ==
    /\ NameFieldValid(a.manufacturer)
    /\ NameFieldValid(a.model)
    /\ OptionalStrValid(a.generation)
    /\ a.club_type \in ClubType
    /\ a.flex \in Flex
    /\ WeightValid(a.weight_grams)
    /\ LengthValid(a.length_inches)
    /\ TorqueValid(a.torque_degrees)
    /\ a.launch \in Profile \cup {NoValue}
    /\ a.spin \in Profile \cup {NoValue}
    /\ DiameterValid(a.butt_diameter_inches)
    /\ DiameterValid(a.tip_diameter_inches)
    /\ a.tip_stiff \in TipStiffness \cup {NoValue}
    /\ a.kickpoint \in Profile \cup {NoValue}
    /\ MsrpValid(a.msrp_usd)

\* ShaftSpec(**a): the instance, or ValidationError (a subclass of ValueError)
ShaftSpec(a) ==
    IF ShaftSpecValid(a)
    THEN Returned([manufacturer |-> strip_whitespace(a.manufacturer.s),
                   model |-> strip_whitespace(a.model.s),
                   generation |-> a.generation,
                   club_type |-> a.club_type,
                   flex |-> a.flex,
                   weight_grams |-> FloatStored(a.weight_grams),
                   length_inches |-> FloatStored(a.length_inches),
                   torque_degrees |-> FloatStored(a.torque_degrees),
                   launch |-> a.launch,
                   spin |-> a.spin,
                   butt_diameter_inches |-> FloatStored(a.butt_diameter_inches),
                   tip_diameter_inches |-> FloatStored(a.tip_diameter_inches),
                   tip_stiff |-> a.tip_stiff,
                   kickpoint |-> a.kickpoint,
                   material |-> a.material,
                   msrp_usd |-> FloatStored(a.msrp_usd)])
    ELSE RaisedMsg("ValidationError", "validation")

FLEX_ORDER ==
    ("Ladies" :> 0) @@ ("Senior" :> 1) @@ ("Regular" :> 2)
 @@ ("Stiff" :> 3) @@ ("X-Stiff" :> 4) @@ ("TX" :> 5)

\* A flex_order whose table has no entry for X-Stiff
flex_order_NoXStiff(spec) ==
    IF spec.flex \in (DOMAIN FLEX_ORDER) \ {"X-Stiff"} THEN FLEX_ORDER[spec.flex] ELSE 3

\* ShaftSpec.flex_order: FLEX_ORDER.get(self.flex, 3)
flex_order(spec) == IF spec.flex \in DOMAIN FLEX_ORDER THEN FLEX_ORDER[spec.flex] ELSE 3

\* A display_name that writes the generation whether the record has one or
\* not
display_name_AlwaysGeneration(spec) ==
    spec.manufacturer \o <<" ">> \o spec.model \o <<" ">> \o spec.generation.s
        \o <<" ">> \o FlexValue(spec.flex)

\* ShaftSpec.display_name:
\*     gen = f" {self.generation}" if self.generation else ""
\*     return f"{self.manufacturer} {self.model}{gen} {self.flex.value}"
display_name(spec) ==
    LET gen == IF Truthy(spec.generation) THEN <<" ">> \o spec.generation.s ELSE <<>>
    IN  spec.manufacturer \o <<" ">> \o spec.model \o gen \o <<" ">> \o FlexValue(spec.flex)

(***************************************************************************)
(* normalizer.py: normalize_row                                            *)
(***************************************************************************)

Text_Unknown == <<"U","n","k","n","o","w","n">>

Text_graphite == <<"g","r","a","p","h","i","t","e">>

\* model = str(row.get("model") or row.get("shaft") or row.get("name")
\*             or row.get("product") or "Unknown").strip()
RowModel(row) ==
    Strip(StrOf(OrChain(<<RowGet(row, "model"), RowGet(row, "shaft"), RowGet(row, "name"),
                          RowGet(row, "product"), Str(Text_Unknown)>>)))

\* generation = row.get("generation") or row.get("gen") or row.get("version")
\* if generation: generation = str(generation).strip()
RowGeneration(row) ==
    LET g == RowFirst(row, <<"generation", "gen", "version">>)
    IN  IF Truthy(g) THEN Str(Strip(StrOf(g))) ELSE g

\* A flex lookup without the default "S"
RowFlexRaw_NoDefault(row) ==
    StrOf(OrChain(<<RowGet(row, "flex"), RowGet(row, "stiffness"), RowGet(row, "Flex")>>))

\* flex_raw = str(row.get("flex") or row.get("stiffness") or row.get("Flex") or "S")
RowFlexRaw(row) ==
    StrOf(OrChain(<<RowGet(row, "flex"), RowGet(row, "stiffness"), RowGet(row, "Flex"),
                    Str(<<"S">>)>>))

\* A weight lookup that passes over the aliases that hold no number
RowWeightRaw_FirstParseable(row) ==
    LET usable == SelectSeq(<<"weight", "weight_grams", "wt">>,
                            LAMBDA c : safe_float(RowGet(row, c)) # None)
    IN  IF usable = <<>> THEN None ELSE RowGet(row, Head(usable))

\* row.get("weight") or row.get("weight_grams") or row.get("wt")
RowWeightRaw(row) == RowFirst(row, <<"weight", "weight_grams", "wt">>)

\* material = str(row.get("material", "graphite")).strip().lower()
RowMaterial(row) ==
    Lower(Strip(IF "material" \in DOMAIN row THEN StrOf(row["material"]) ELSE Text_graphite))

\* The arguments of the ShaftSpec(...) call that ends normalize_row
RowShaftArgs(row, manufacturer, club_type, flex, weight, launch, spin, kickpoint, tip_stiff) ==
    [manufacturer |-> Str(manufacturer),
     model |-> Str(RowModel(row)),
     generation |-> RowGeneration(row),
     club_type |-> club_type,
     flex |-> flex,
     weight_grams |-> weight,
     length_inches |-> safe_float(RowFirst(row, <<"length", "length_inches", "raw_length">>)),
     torque_degrees |-> safe_float(RowFirst(row, <<"torque", "torque_degrees">>)),
     launch |-> launch,
     spin |-> spin,
     butt_diameter_inches |-> safe_float(RowFirst(row, <<"butt_diameter", "butt">>)),
     tip_diameter_inches |-> safe_float(RowFirst(row, <<"tip_diameter", "tip_dia">>)),
     tip_stiff |-> tip_stiff,
     kickpoint |-> kickpoint,
     material |-> RowMaterial(row),
     msrp_usd |-> safe_float(RowFirst(row, <<"msrp", "msrp_usd", "price">>))]

\* The four optional normalizers of normalize_row, in the order of their calls
RowProfiles(row) ==
    <<normalize_launch(RowFirst(row, <<"launch", "launch_profile">>)),
      normalize_spin(RowFirst(row, <<"spin", "spin_profile">>)),
      normalize_kickpoint(RowFirst(row, <<"kickpoint", "kick_point", "bend_point">>)),
      normalize_tip_stiffness(RowFirst(row, <<"tip_stiff", "tip_stiffness", "tip">>))>>

\* The first of the four that raised, or 0
FirstRaised(p) ==
    IF \E i \in 1..Len(p) : p[i].exc # "none"
    THEN MinOf({i \in 1..Len(p) : p[i].exc # "none"})
    ELSE 0

\* normalize_row from "# Launch, spin, kickpoint" on
RowFinish(row, manufacturer, club_type, flex, weight) ==
    Let(RowProfiles(row), LAMBDA p :
        IF FirstRaised(p) # 0 THEN p[FirstRaised(p)]
        ELSE Let(RowShaftArgs(row, manufacturer, club_type, flex, weight,
                              p[1].val, p[2].val, p[3].val, p[4].val),
                 LAMBDA a : ShaftSpec(a)))

\* normalize_row from "# Weight" on
RowFromWeight(row, manufacturer, club_type, flex) ==
    Let(safe_float(RowWeightRaw(row)), LAMBDA weight :
        IF weight = None THEN RaisedMsg("ValueError", "Missing weight")
        ELSE RowFinish(row, manufacturer, club_type, flex, weight))

\* normalize_row(row, manufacturer, club_type): the statements in order, the
\* first exception ending the call.
normalize_row(row, manufacturer, club_type) ==
    Let(normalize_flex(RowFlexRaw(row)), LAMBDA flex :
        IF flex.exc # "none" THEN flex
        ELSE RowFromWeight(row, manufacturer, club_type, flex.val))

(***************************************************************************)
(* normalizer.py: normalize_dataframe                                      *)
(***************************************************************************)

\* except (ValueError, KeyError): pydantic's ValidationError is a ValueError
CaughtByBatch(exc) == exc \in {"ValueError", "KeyError", "ValidationError"}

\* The rows of df in order: 1, 2, ..., Len(df)
Positions(df) == AsSeq([i \in 1..Len(df) |-> i])

\* seqs[1] \o seqs[2] \o ...
RECURSIVE Concat(_)
Concat(seqs) == IF seqs = <<>> THEN <<>> ELSE Head(seqs) \o Concat(Tail(seqs))

\* What the for loop of normalize_dataframe leaves, res[i] being the outcome
\* of normalize_row on row i: the first exception that the except clause does
\* not catch ends the call; otherwise the specs of the rows that returned, in
\* row order, and one error per caught exception (what the function prints).
BatchResult(df, res) ==
    LET escaping == {i \in 1..Len(df) : res[i].exc # "none" /\ ~CaughtByBatch(res[i].exc)}
        good == SelectSeq(Positions(df), LAMBDA i : res[i].exc = "none")
        bad == SelectSeq(Positions(df), LAMBDA i : res[i].exc # "none")
    IN  IF escaping # {}
        THEN [exc |-> res[MinOf(escaping)].exc, specs |-> <<>>, errors |-> <<>>]
        ELSE [exc |-> "none",
              specs |-> AsSeq([j \in 1..Len(good) |-> res[good[j]].val]),
              errors |-> AsSeq([j \in 1..Len(bad) |->
                                  [idx |-> df[bad[j]].idx, msg |-> res[bad[j]].msg]])]

\* normalize_dataframe(df, manufacturer, club_type); df is the sequence of
\* (idx, row) pairs that df.iterrows() yields.
normalize_dataframe(df, manufacturer, club_type) ==
    Let(AsSeq([i \in 1..Len(df) |-> normalize_row(df[i].row, manufacturer, club_type)]),
        LAMBDA res : BatchResult(df, res))

(***************************************************************************)
(* load_data.py: load_and_normalize                                        *)
(*                                                                         *)
(* A table is the DataFrame load_raw_csv returns: its columns (names       *)
(* already trimmed, lower-cased, spaces to underscores) and its rows, each *)
(* a function from the columns to cell values.  Row i has index i - 1.     *)
(***************************************************************************)

\* The (idx, row) pairs of a DataFrame, in index order
Indexed(rows) == AsSeq([i \in 1..Len(rows) |-> [idx |-> i - 1, row |-> rows[i]]])

\* The least text of a non-empty set
MinText(S) == CHOOSE t \in S : \A u \in S : u = t \/ StrLess(t, u)

\* sorted(S)
RECURSIVE SortedTexts(_)
SortedTexts(S) ==
    IF S = {} THEN <<>> ELSE <<MinText(S)>> \o SortedTexts(S \ {MinText(S)})

\* The keys of df.groupby("manufacturer"): sorted, rows with NaN dropped
GroupKeys(table) ==
    SortedTexts({StrOf(table.rows[i]["manufacturer"]) :
                    i \in {j \in 1..Len(table.rows) : table.rows[j]["manufacturer"].k # "nan"}})

IsMember(manufacturer, r) ==
    r.row["manufacturer"].k # "nan" /\ StrOf(r.row["manufacturer"]) = manufacturer

\* The mfr_group of one key
MfrGroup(table, manufacturer) ==
    SelectSeq(Indexed(table.rows), LAMBDA r : IsMember(manufacturer, r))

\* ct = row["club_type"].strip().lower()
ClubLabel(r) == Lower(Strip(r.row["club_type"].s))

\* The keys of the groups dict in insertion order
RECURSIVE LabelsInOrder(_, _)
LabelsInOrder(group, seen) ==
    IF group = <<>> THEN <<>>
    ELSE IF ClubLabel(Head(group)) \in seen THEN LabelsInOrder(Tail(group), seen)
    ELSE <<ClubLabel(Head(group))>>
         \o LabelsInOrder(Tail(group), seen \cup {ClubLabel(Head(group))})

Text_woods == <<"w","o","o","d","s">>

\* The groups dict of detect_club_type for the labels in insertion order
GroupsOf(group, labels) ==
    AsSeq([g \in 1..Len(labels) |->
              [type_name |-> labels[g],
               rows |-> SelectSeq(group, LAMBDA r : ClubLabel(r) = labels[g])]])

\* detect_club_type(df): the (type_name, rows) groups in dict order; a cell of
\* the club_type column that is not text has no strip(): AttributeError
detect_club_type(columns, group) ==
    IF "club_type" \in columns
    THEN IF \E i \in 1..Len(group) : group[i].row["club_type"].k # "str"
         THEN Raised("AttributeError")
         ELSE Let(LabelsInOrder(group, {}), LAMBDA labels : Returned(GroupsOf(group, labels)))
    ELSE Returned(<<[type_name |-> Text_woods, rows |-> group]>>)

CLUB_TYPE_MAP ==
    (Text_woods :> "woods")
 @@ (<<"f","a","i","r","w","a","y">> :> "fairway")
 @@ (<<"h","y","b","r","i","d">> :> "hybrid")
 @@ (<<"i","r","o","n">> :> "iron")
 @@ (<<"w","e","d","g","e">> :> "wedge")
 @@ (<<"p","u","t","t","e","r">> :> "putter")

\* CLUB_TYPE_MAP.get(type_name, ClubType.WOODS)
ClubTypeOf(type_name) ==
    IF type_name \in DOMAIN CLUB_TYPE_MAP THEN CLUB_TYPE_MAP[type_name] ELSE "woods"

\* The outcomes of the passes of a loop that extends all_specs: the first
\* exception ends the loop, otherwise the lists are concatenated in order.
LoopResult(excs, specs) ==
    LET failed == {g \in 1..Len(excs) : excs[g] # "none"}
    IN  IF failed # {} THEN Raised(excs[MinOf(failed)])
        ELSE Returned(Concat(specs))

\* for type_name, indices in type_groups.items():
\*     club_type = CLUB_TYPE_MAP.get(type_name, ClubType.WOODS)
\*     subset = mfr_group.loc[indices]
\*     specs = normalize_dataframe(subset, str(manufacturer), club_type)
\*     all_specs.extend(specs)
TypeLoop(groups, manufacturer) ==
    Let(AsSeq([g \in 1..Len(groups) |->
                  normalize_dataframe(groups[g].rows, manufacturer,
                                      ClubTypeOf(groups[g].type_name))]),
        LAMBDA res : LoopResult(AsSeq([g \in 1..Len(res) |-> res[g].exc]),
                                AsSeq([g \in 1..Len(res) |-> res[g].specs])))

\* The body of "for manufacturer, mfr_group in df.groupby(...)" for one key
ManufacturerSpecs(table, manufacturer) ==
    Let(MfrGroup(table, manufacturer), LAMBDA group :
    Let(detect_club_type(table.columns, group), LAMBDA d :
        IF d.exc # "none" THEN d ELSE TypeLoop(d.val, manufacturer)))

\* for manufacturer, mfr_group in df.groupby("manufacturer"): ...
ManufacturerLoop(table, keys) ==
    Let(AsSeq([m \in 1..Len(keys) |-> ManufacturerSpecs(table, keys[m])]),
        LAMBDA res : LoopResult(AsSeq([m \in 1..Len(res) |-> res[m].exc]),
                                AsSeq([m \in 1..Len(res) |-> res[m].val])))

\* load_and_normalize(filepath) on the table of the file
load_and_normalize(table) ==
    IF "manufacturer" \in table.columns
    THEN Let(GroupKeys(table), LAMBDA keys : ManufacturerLoop(table, keys))
    ELSE RaisedMsg("ValueError", "CSV must have a 'manufacturer' column")

(***************************************************************************)
(* load_data.py: the store and main                                        *)
(***************************************************************************)

\* The store file: whether it exists, the records its text holds, and
\* whether the text is a complete JSON document.  Missing: it does not exist.
Missing == [exists |-> FALSE, data |-> <<>>, complete |-> TRUE]

\* spec.model_dump(mode="json"): the fields by name, enumerations by value
model_dump(spec) ==
    [manufacturer |-> spec.manufacturer,
     model |-> spec.model,
     generation |-> spec.generation,
     club_type |-> spec.club_type,
     flex |-> spec.flex,
     weight_grams |-> spec.weight_grams,
     length_inches |-> spec.length_inches,
     torque_degrees |-> spec.torque_degrees,
     launch |-> spec.launch,
     spin |-> spec.spin,
     butt_diameter_inches |-> spec.butt_diameter_inches,
     tip_diameter_inches |-> spec.tip_diameter_inches,
     tip_stiff |-> spec.tip_stiff,
     kickpoint |-> spec.kickpoint,
     material |-> spec.material,
     msrp_usd |-> spec.msrp_usd]

\* save_database(specs): the file after write_text
save_database(specs) ==
    [exists |-> TRUE, data |-> AsSeq([i \in 1..Len(specs) |-> model_dump(specs[i])]),
     complete |-> TRUE]

\* The deduplication loop of main from all_specs[i] on
RECURSIVE DedupLoop(_, _, _, _)
DedupLoop(specs, i, seen, unique) ==
    IF i > Len(specs) THEN unique
    ELSE LET key == display_name(specs[i])
         IN  IF key \notin seen
             THEN DedupLoop(specs, i + 1, seen \cup {key}, Append(unique, specs[i]))
             ELSE DedupLoop(specs, i + 1, seen, unique)

\* The keyword arguments ShaftSpec(**item) gets from one object of the file
ItemArgs(item) == [item EXCEPT !.manufacturer = Str(@), !.model = Str(@)]

\* A load_database that leaves out the records that fail validation
load_database_SkipInvalid(file) ==
    IF ~file.exists THEN Returned(<<>>)
    ELSE IF ~file.complete THEN Raised("JSONDecodeError")
    ELSE Let(AsSeq([i \in 1..Len(file.data) |-> ShaftSpec(ItemArgs(file.data[i]))]),
             LAMBDA res :
                 Let(SelectSeq(Positions(res), LAMBDA i : res[i].exc = "none"),
                     LAMBDA good : Returned(AsSeq([j \in 1..Len(good) |-> res[good[j]].val]))))

\* load_database(filepath): [] when the file does not exist; json.loads
\* raises on a text that is not a complete document; ShaftSpec(**item)
\* for every item, the first exception ending the call.
load_database(file) ==
    IF ~file.exists THEN Returned(<<>>)
    ELSE IF ~file.complete THEN Raised("JSONDecodeError")
    ELSE Let(AsSeq([i \in 1..Len(file.data) |-> ShaftSpec(ItemArgs(file.data[i]))]),
             LAMBDA res :
                 IF \E i \in 1..Len(res) : res[i].exc # "none"
                 THEN res[MinOf({i \in 1..Len(res) : res[i].exc # "none"})]
                 ELSE Returned(AsSeq([i \in 1..Len(res) |-> res[i].val])))

\* A deduplication in which the last record of a display_name wins
Deduplicate_LastWins(specs) ==
    SelectSeq(specs, LAMBDA s :
        \E i \in 1..Len(specs) :
            /\ specs[i] = s
            /\ \A j \in (i + 1)..Len(specs) : display_name(specs[j]) # display_name(s))

\* seen = set(); unique_specs = []; for spec in all_specs: ...
Deduplicate(specs) == DedupLoop(specs, 1, {}, <<>>)

(***************************************************************************)
(* The build: data/raw is filled with tables, then main() runs             *)
(***************************************************************************)

\* At most this many *.csv files in data/raw
MaxFiles == 2

\* At most this many rows in data/raw, all files together
MaxRows == 2

T_KBS == <<"K","B","S">>

T_Fuji == <<"F","u","j","i">>

T_Tour == <<"T","o","u","r">>

T_Ventus == <<"V","e","n","t","u","s">>

BuildColumns == {"manufacturer", "club_type", "model", "generation", "flex", "weight", "wt", "launch"}

BuildRow(manufacturer, club_type, model, generation, flex, weight, wt, launch) ==
    [c \in BuildColumns |->
        CASE c = "manufacturer" -> manufacturer
          [] c = "club_type" -> club_type
          [] c = "model" -> model
          [] c = "generation" -> generation
          [] c = "flex" -> flex
          [] c = "weight" -> weight
          [] c = "wt" -> wt
          [] c = "launch" -> launch]

\* The rows the files are filled from
RowPool ==
    { \* "KBS Tour nan Stiff" (the empty generation cell is NaN), 120 g
      BuildRow(Str(T_KBS), Str(<<"I","r","o","n">>), Str(T_Tour), NaN,
               Str(<<"S">>), Num(120), NaN, Str(<<"M","i","d">>)),
      \* the same display name from other cells, 130 g
      BuildRow(Str(T_KBS), Str(<<"i","r","o","n">>), Str(T_Tour), NaN,
               Str(<<"s","t","i","f","f">>), Num(130), NaN, NaN),
      \* "Fuji Ventus TR X-Stiff", the weight as text
      BuildRow(Str(T_Fuji), Str(<<"W","o","o","d","s">>), Str(T_Ventus), Str(<<"T","R">>),
               Str(<<"6",".","0","X">>), Str(<<"6","7">>), NaN, Str(<<"L","o","w","/","M","i","d">>)),
      \* a weight out of range
      BuildRow(Str(T_KBS), Str(<<"i","r","o","n">>), Str(T_Tour), Str(<<"1","3","0">>),
               Str(<<"X">>), Num(350), NaN, NaN),
      \* no weight
      BuildRow(Str(T_Fuji), Str(<<"w","o","o","d","s">>), Str(T_Ventus), NaN,
               Str(<<"R">>), NaN, Str(<<"n","/","a">>), NaN),
      \* a numeric launch cell
      BuildRow(Str(T_Fuji), Str(<<"w","o","o","d","s">>), Str(T_Ventus), Str(<<"T","R">>),
               Str(<<"X">>), Num(60), NaN, Num(12)) }

\* The column sets of the files: all columns, or no manufacturer column
ColumnSets == {BuildColumns, BuildColumns \ {"manufacturer"}}

\* A row cut to the columns of its table
Project(row, columns) == [c \in columns |-> row[c]]

RECURSIVE SeqsUpTo(_, _)
SeqsUpTo(S, n) ==
    IF n = 0 THEN {<<>>}
    ELSE SeqsUpTo(S, n - 1) \cup {Append(q, x) : q \in {r \in SeqsUpTo(S, n - 1) : Len(r) = n - 1}, x \in S}

\* The tables of at most n rows
Tables(n) ==
    {[columns |-> c, rows |-> AsSeq([i \in 1..Len(rs) |-> Project(rs[i], c)])] :
        c \in ColumnSets, rs \in SeqsUpTo(RowPool, n)}

RECURSIVE TotalRows(_)
TotalRows(dir) == IF dir = <<>> THEN 0 ELSE Len(Head(dir).rows) + TotalRows(Tail(dir))

BuildInit ==
    /\ rawDir = <<>>
    /\ dbFile = Missing
    /\ pc = "idle"
    /\ csvIdx = 0
    /\ all_specs = <<>>
    /\ unique_specs = <<>>

CallIdle == op = "none" /\ arg = <<>> /\ ret = <<>>

Init == BuildInit /\ CallIdle

\* A CSV file is put into data/raw before the build runs
PutCsv ==
    /\ pc = "idle"
    /\ Len(rawDir) < MaxFiles
    /\ \E t \in Tables(MaxRows - TotalRows(rawDir)) : rawDir' = Append(rawDir, t)
    /\ UNCHANGED <<dbFile, pc, csvIdx, all_specs, unique_specs, op, arg, ret>>

\* A main that removes the store file before it reads the sources
MainStart_ClearingStore ==
    /\ pc = "idle"
    /\ all_specs' = <<>>
    /\ csvIdx' = 1
    /\ dbFile' = Missing
    /\ pc' = IF rawDir = <<>> THEN "returned" ELSE "loop"
    /\ UNCHANGED <<rawDir, unique_specs, op, arg, ret>>

\* main(): all_specs = []; csv_files = list(RAW_DIR.glob("*.csv"));
\* if not csv_files: print(...); return
MainStart ==
    /\ pc = "idle"
    /\ all_specs' = <<>>
    /\ csvIdx' = 1
    /\ pc' = IF rawDir = <<>> THEN "returned" ELSE "loop"
    /\ UNCHANGED <<rawDir, dbFile, unique_specs, op, arg, ret>>

\* One pass of: for csv_file in csv_files: specs = load_and_normalize(csv_file);
\* all_specs.extend(specs).  main catches nothing: an exception ends it.
MainLoadAndNormalize ==
    /\ pc = "loop"
    /\ csvIdx <= Len(rawDir)
    /\ \E r \in {load_and_normalize(rawDir[csvIdx])} :
           IF r.exc = "none"
           THEN /\ all_specs' = all_specs \o r.val
                /\ csvIdx' = csvIdx + 1
                /\ pc' = "loop"
           ELSE /\ pc' = "raised"
                /\ UNCHANGED <<all_specs, csvIdx>>
    /\ UNCHANGED <<rawDir, dbFile, unique_specs, op, arg, ret>>

\* The deduplication by display_name
MainDedup ==
    /\ pc = "loop"
    /\ csvIdx > Len(rawDir)
    /\ unique_specs' = Deduplicate(all_specs)
    /\ pc' = "save"
    /\ UNCHANGED <<rawDir, dbFile, csvIdx, all_specs, op, arg, ret>>

\* save_database(unique_specs)
MainSave ==
    /\ pc = "save"
    /\ dbFile' = save_database(unique_specs)
    /\ pc' = "done"
    /\ UNCHANGED <<rawDir, csvIdx, all_specs, unique_specs, op, arg, ret>>

Next == PutCsv \/ MainStart \/ MainLoadAndNormalize \/ MainDedup \/ MainSave

Spec == Init /\ [][Next]_vars

(***************************************************************************)
(* Function-level specifications: Init draws the argument, the action      *)
(* applies the function; the build does not run.                           *)
(***************************************************************************)

\* The call of function f on arg
Call(f, result) ==
    /\ op = "none"
    /\ op' = f
    /\ ret' = result
    /\ UNCHANGED <<arg, rawDir, dbFile, pc, csvIdx, all_specs, unique_specs>>

\* At most this many spaces before and after an input text
MaxPad == 1

Pad(n) == AsSeq([i \in 1..n |-> " "])

\* w with a space after its first i characters
InsertSpace(w, i) == SubSeq(w, 1, i) \o <<" ">> \o SubSeq(w, i + 1, Len(w))

\* w in lower case, in upper case and capitalized
Cases(w) == {w, Upper(w), Capitalize(w)}

\* The cases of w, as they are and with one inner space
Spellings(w) ==
    Cases(w) \cup {InsertSpace(v, i) : v \in Cases(w), i \in 1..(Len(w) - 1)}

\* The spellings of w with spaces around them
Variants(w) ==
    {Pad(a) \o v \o Pad(b) : a \in 0..MaxPad, b \in 0..MaxPad, v \in Spellings(w)}

\* raw is a spelling of w with spaces around it
IsVariant(raw, w) ==
    Let(Strip(raw), LAMBDA core : /\ Len(core) - Len(w) \in {0, 1}
                                  /\ core \in Spellings(w))

\* raw is a case of w with spaces around it
IsCaseVariant(raw, w) ==
    Let(Strip(raw), LAMBDA core : Len(core) = Len(w) /\ core \in Cases(w))

\* Weight prefixes: digits and an optional decimal point
FlexPrefixes ==
    {<<"6">>, <<"6","0">>, <<"6",".","0">>, <<"5",".","5">>, <<"1","2","0">>, <<"7",".">>}

FlexCodes == Range(FlexCodeAlternatives)

\* Texts that are neither an alias nor a weight-prefixed code, and texts
\* that end in a weight and a code after other characters
FlexOthers ==
    {<<"b","a","n","a","n","a">>, <<>>, <<"n","a","n">>, <<"s","t","i","f","f","y">>,
     <<"6",".","0">>, <<"6","0","q">>, <<"s","6","0">>, <<"x","x">>, <<"m">>,
     <<"6","0","s","r">>, <<"6","0","-","s">>,
     <<"a","b","c","6","0","s">>, <<"t","o","u","r","-","6",".","5","x">>}

FlexInputs ==
    UNION {Variants(w) : w \in (DOMAIN FLEX_MAP)
                                \cup {p \o c : p \in FlexPrefixes, c \in FlexCodes}
                                \cup FlexOthers}

InitFlex == BuildInit /\ op = "none" /\ ret = <<>> /\ arg \in FlexInputs

CallNormalizeFlex == Call("normalize_flex", normalize_flex(arg))

SpecFlex == InitFlex /\ [][CallNormalizeFlex]_vars

(***************************************************************************)
(* Flex normalization                                                      *)
(***************************************************************************)

\* The flex each alias stands for
FlexExpected ==
    (<<"l">> :> "Ladies") @@ (<<"l","a","d","i","e","s">> :> "Ladies") @@
    (<<"a">> :> "Senior") @@ (<<"s","r">> :> "Senior") @@
    (<<"s","e","n","i","o","r">> :> "Senior") @@
    (<<"r">> :> "Regular") @@ (<<"r","e","g","u","l","a","r">> :> "Regular") @@
    (<<"s">> :> "Stiff") @@ (<<"s","t","i","f","f">> :> "Stiff") @@
    (<<"x">> :> "X-Stiff") @@ (<<"x","s">> :> "X-Stiff") @@
    (<<"x","-","s","t","i","f","f">> :> "X-Stiff") @@
    (<<"x","s","t","i","f","f">> :> "X-Stiff") @@
    (<<"t","x">> :> "TX") @@ (<<"x","x","x">> :> "TX")

\* normalize_flex returned the flex f
FlexIs(f) == ret.exc = "none" /\ ret.val = f

\* C5: normalize_flex returns the expected flex for every alias key in any
\* letter case, with spaces around it or inside it, and for a weight
\* prefix (digits, optional decimal point) followed by a flex code, where
\* it returns what the bare code gives.
C5_FlexAliases ==
    op = "normalize_flex" =>
        /\ \A k \in DOMAIN FLEX_MAP :
              IsVariant(arg, k) => FlexIs(FlexExpected[k])
        /\ \A p \in FlexPrefixes : \A c \in FlexCodes :
              IsVariant(arg, p \o c) =>
                  FlexIs(FlexExpected[c]) /\ ret = normalize_flex(c)

\* C5 witness: a weight-prefixed code in upper case with a space inside
\* and spaces around it was normalized
C5_Witness ==
    /\ op = "normalize_flex"
    /\ arg = <<" ","6",".","0"," ","S"," ">>
    /\ FlexIs("Stiff")

\* cleaned is a weight prefix followed by a flex code and nothing else
IsPrefixedCode(cleaned) ==
    \E n \in 1..(Len(cleaned) - 1) :
        /\ \A i \in 1..n : IsWeightChar(cleaned[i])
        /\ SubSeq(cleaned, n + 1, Len(cleaned)) \in FlexCodes

\* The text is an alias key or a weight-prefixed code once cleaned
FlexRecognized(raw) ==
    \/ FlexCleaned(raw) \in DOMAIN FlexExpected
    \/ IsPrefixedCode(FlexCleaned(raw))

\* C6: normalize_flex raises a ValueError for every text whose cleaned form
\* is neither an alias key nor a leading weight prefix followed by a code.
C6_UnrecognizedFlexRaises ==
    (op = "normalize_flex" /\ ~FlexRecognized(arg)) => ret.exc = "ValueError"

(***************************************************************************)
(* Launch, spin and kickpoint normalization                                *)
(***************************************************************************)

\* The profile each alias stands for; the last three are kickpoint aliases
ProfileExpected ==
    (<<"l","o","w">> :> "Low") @@
    (<<"l","o","w","-","m","i","d">> :> "Low-Mid") @@
    (<<"l","o","w","/","m","i","d">> :> "Low-Mid") @@
    (<<"m","i","d">> :> "Mid") @@
    (<<"m","i","d","-","h","i","g","h">> :> "Mid-High") @@
    (<<"m","i","d","/","h","i","g","h">> :> "Mid-High") @@
    (<<"h","i","g","h">> :> "High") @@
    (<<"f","r","o","n","t">> :> "Low") @@
    (<<"f","r","o","n","t","-","m","i","d">> :> "Low-Mid") @@
    (<<"r","e","a","r">> :> "High")

\* Texts outside every alias table
ProfileOthers ==
    {<<"s","k","y">>, <<"l","o","w","m","i","d">>, <<"l","o","w"," ","-"," ","m","i","d">>,
     <<"n","a","n">>, <<"v","e","r","y"," ","h","i","g","h">>, <<"l","o">>, <<"-">>}

\* w in lower case, in upper case and capitalized, with spaces around it
CaseVariants(w) ==
    {Pad(a) \o v \o Pad(b) : a \in 0..MaxPad, b \in 0..MaxPad,
                             v \in Cases(w)}

ProfileInputs ==
    {None, NaN, Str(<<>>)}
        \cup {Str(v) : v \in UNION {CaseVariants(w) : w \in (DOMAIN ProfileExpected)
                                                         \cup ProfileOthers}}

InitProfile == BuildInit /\ op = "none" /\ ret = <<>> /\ arg \in ProfileInputs

CallNormalizeLaunch == Call("normalize_launch", normalize_launch(arg))

CallNormalizeSpin == Call("normalize_spin", normalize_spin(arg))

CallNormalizeKickpoint == Call("normalize_kickpoint", normalize_kickpoint(arg))

NextProfile == CallNormalizeLaunch \/ CallNormalizeSpin \/ CallNormalizeKickpoint

SpecProfile == InitProfile /\ [][NextProfile]_vars

\* The alias table of the normalizer f
ProfileMapOf(f) == IF f = "normalize_kickpoint" THEN KICKPOINT_MAP ELSE LAUNCH_MAP

\* The hyphen-separated form of a slash-separated text
Hyphened(w) == AsSeq([i \in 1..Len(w) |-> IF w[i] = "/" THEN "-" ELSE w[i]])

\* What the normalizer f gives for the text w
ProfileOf(f, w) ==
    CASE f = "normalize_launch" -> normalize_launch(Str(w))
      [] f = "normalize_spin" -> normalize_spin(Str(w))
      [] OTHER -> normalize_kickpoint(Str(w))

T_Fujikura_Padded == <<" "," ","F","u","j","i","k","u","r","a"," "," ">>

T_VentusBlue_Padded == <<" ","V","e","n","t","u","s"," ","B","l","u","e"," ">>

T_TR == <<"T","R">>

\* The keyword arguments of a construction; the fields left out of the
\* enumeration take their defaults
ShaftArgs ==
    {[manufacturer |-> Str(m), model |-> Str(mo), generation |-> g,
      club_type |-> ct, flex |-> f, weight_grams |-> w, length_inches |-> l,
      torque_degrees |-> tq, launch |-> NoValue, spin |-> NoValue,
      butt_diameter_inches |-> None, tip_diameter_inches |-> None,
      tip_stiff |-> NoValue, kickpoint |-> NoValue,
      material |-> Text_graphite, msrp_usd |-> p] :
        m \in {T_Fujikura_Padded, <<>>, <<" "," ">>},
        mo \in {T_VentusBlue_Padded, <<>>, <<" ">>},
        g \in {None, Str(T_TR), Str(<<>>)},
        ct \in {"woods", "driver"},
        f \in Flex \cup {"Wobbly"},
        w \in {Num(0), Num(62), Num(300)},
        l \in {None, Num(0), Num(45), Num(60)},
        tq \in {None, Num(0 - 1), Num(3), Num(15)},
        p \in {None, Num(0 - 1), Num(0)}}

InitSchema == BuildInit /\ op = "none" /\ ret = <<>> /\ arg \in ShaftArgs

ConstructShaftSpec == Call("ShaftSpec", ShaftSpec(arg))

\* spec.display_name on the instance just constructed
ReadDisplayName ==
    /\ op = "ShaftSpec"
    /\ ret.exc = "none"
    /\ op' = "display_name"
    /\ arg' = ret.val
    /\ ret' = Returned(display_name(ret.val))
    /\ UNCHANGED buildVars

\* spec.flex_order on the instance just constructed
ReadFlexOrder ==
    /\ op = "ShaftSpec"
    /\ ret.exc = "none"
    /\ op' = "flex_order"
    /\ arg' = ret.val
    /\ ret' = Returned(flex_order(ret.val))
    /\ UNCHANGED buildVars

NextSchema == ConstructShaftSpec \/ ReadDisplayName \/ ReadFlexOrder

SpecSchema == InitSchema /\ [][NextSchema]_vars

\* The number v is supplied and lies outside the interval the predicate
\* Inside describes
SuppliedOutside(v, Inside(_)) == v.k = "num" /\ ~Inside(v.n)

\* The arguments that a construction has to reject
ShaftArgsRejected(a) ==
    \/ Strip(a.manufacturer.s) = <<>>
    \/ Strip(a.model.s) = <<>>
    \/ ~(a.weight_grams.k = "num" /\ a.weight_grams.n > 0 /\ a.weight_grams.n < 300)
    \/ SuppliedOutside(a.torque_degrees, LAMBDA n : n >= 0 /\ n < 15)
    \/ SuppliedOutside(a.length_inches, LAMBDA n : n > 0 /\ n < 60)
    \/ SuppliedOutside(a.msrp_usd, LAMBDA n : n >= 0)

\* C8: construction of a ShaftSpec fails whenever manufacturer or model is
\* empty after trimming, the weight is outside (0,300), a supplied torque is
\* outside [0,15), a supplied length is outside (0,60) or a supplied price
\* is negative; when it succeeds, the stored manufacturer and model are the
\* trimmed inputs and are non-empty.
C8_ConstructionRejects ==
    op = "ShaftSpec" =>
        /\ ShaftArgsRejected(arg) => ret.exc = "ValidationError"
        /\ ret.exc = "none" =>
              /\ ret.val.manufacturer = Strip(arg.manufacturer.s)
              /\ ret.val.model = Strip(arg.model.s)
              /\ ret.val.manufacturer # <<>>
              /\ ret.val.model # <<>>

RECURSIVE JoinSpace(_)
JoinSpace(parts) ==
    IF Len(parts) = 1 THEN parts[1]
    ELSE Head(parts) \o <<" ">> \o JoinSpace(Tail(parts))

\* The generation of a record, when it has one
GenerationPart(spec) ==
    IF spec.generation.k = "str" /\ spec.generation.s # <<>>
    THEN <<spec.generation.s>>
    ELSE <<>>

\* C9: display_name is "{manufacturer} {model} {generation} {flex}" when the
\* record has a generation and "{manufacturer} {model} {flex}" when it has
\* none, the parts separated by single spaces and, without a generation,
\* no double space between model and flex.
C9_DisplayName ==
    op = "display_name" =>
        /\ ret.val = JoinSpace(<<arg.manufacturer, arg.model>>
                                   \o GenerationPart(arg)
                                   \o <<FlexValue(arg.flex)>>)
        /\ (GenerationPart(arg) = <<>> /\ arg.model # <<>>)
              => EndsWith(ret.val, arg.model \o <<" ">> \o FlexValue(arg.flex))

\* C9 witness: the name of a record without a generation has been read
C9_Witness ==
    /\ op = "display_name"
    /\ arg.generation = None
    /\ ret.val = <<"F","u","j","i","k","u","r","a"," ","V","e","n","t","u","s"," ",
                   "B","l","u","e"," ","X","-","S","t","i","f","f">>

\* The flex values from the softest to the stiffest
FlexChain == <<"Ladies", "Senior", "Regular", "Stiff", "X-Stiff", "TX">>

\* C10: flex_order ranks Ladies < Senior < Regular < Stiff < X-Stiff < TX
\* as 0..5, so that two records have the same flex_order exactly when they
\* have the same flex.
C10_FlexOrder ==
    op = "flex_order" =>
        /\ ret.val = IndexOf(FlexChain, arg.flex) - 1
        /\ \A f \in Flex :
              /\ (flex_order([arg EXCEPT !.flex = f]) = ret.val) <=> (f = arg.flex)
              /\ (flex_order([arg EXCEPT !.flex = f]) < ret.val)
                    <=> (IndexOf(FlexChain, f) < IndexOf(FlexChain, arg.flex))

\* C10 witness: the rank of a TX record has been read
C10_Witness == op = "flex_order" /\ arg.flex = "TX" /\ ret.val = 5

(***************************************************************************)
(* normalize_row and normalize_dataframe                                   *)
(***************************************************************************)

\* The row whose columns are the fields of r that hold a cell
Present(r) == [c \in {d \in DOMAIN r : r[d] # None} |-> r[c]]

T_heavy == <<"h","e","a","v","y">>

T_na == <<"n","/","a">>

\* Rows over the columns model, flex, the three weight columns, launch and
\* torque; None leaves the column out of the row
RowInputs ==
    {Present([model |-> m, flex |-> f, weight |-> w, weight_grams |-> wg,
              wt |-> x, launch |-> l, torque |-> tq]) :
        m \in {None, Str(T_Tour)},
        f \in {None, NaN, Str(<<"S">>), Str(<<"b","a","n","a","n","a">>)},
        w \in {None, NaN, Num(0), Num(62), Num(350), Str(T_heavy), Str(<<"6","2">>)},
        wg \in {None, Num(55), Str(T_na)},
        x \in {None, NaN, Num(70)},
        l \in {None, Str(<<"L","o","w","/","M","i","d">>), Num(12)},
        tq \in {None, Num(3), Num(20)}}

InitRow ==
    /\ BuildInit /\ op = "none" /\ ret = <<>>
    /\ arg \in {[row |-> r, manufacturer |-> T_KBS, club_type |-> ct] :
                   r \in RowInputs, ct \in {"woods", "iron"}}

CallNormalizeRow ==
    Call("normalize_row", normalize_row(arg.row, arg.manufacturer, arg.club_type))

SpecRow == InitRow /\ [][CallNormalizeRow]_vars

WeightAliases == <<"weight", "weight_grams", "wt">>

\* A text with a character that no number has
NotANumber(t) ==
    \E i \in 1..Len(t) : ~(IsDigit(t[i]) \/ t[i] \in {".", "-", "+", " ", "e", "E"})

\* The cell holds no number: it is empty, or text that is not a number
NoWeightIn(v) == v.k \in {"none", "nan"} \/ (v.k = "str" /\ NotANumber(v.s))

\* The weight columns of the row, in alias order
WeightColumns(row) == SelectSeq(WeightAliases, LAMBDA c : c \in DOMAIN row)

\* The row has no weight: none of its weight columns holds a number, or
\* the first weight column it has holds none
RowWithoutWeight(row) ==
    \/ \A i \in 1..Len(WeightAliases) : NoWeightIn(RowGet(row, WeightAliases[i]))
    \/ /\ WeightColumns(row) # <<>>
       /\ row[Head(WeightColumns(row))].k \in {"nan", "str"}
       /\ NoWeightIn(row[Head(WeightColumns(row))])

\* C4: normalize_row fails, whatever the other columns hold, for every row
\* whose weight is absent or cannot be parsed as a number.
C4_MissingWeightFails ==
    (op = "normalize_row" /\ RowWithoutWeight(arg.row)) => ret.exc = "ValueError"

\* C4 witness: a row with a model, a flex, a launch and a torque, no weight
\* column and text in the other two, was refused for its weight
C4_Witness ==
    /\ op = "normalize_row"
    /\ arg.row = Present([model |-> Str(T_Tour), flex |-> Str(<<"S">>), weight |-> None,
                          weight_grams |-> Str(T_na), wt |-> NaN,
                          launch |-> Str(<<"L","o","w","/","M","i","d">>),
                          torque |-> Num(3)])
    /\ ret = RaisedMsg("ValueError", "Missing weight")

\* At most this many rows in a DataFrame given to normalize_dataframe
MaxBatch == 3

InitBatch ==
    /\ BuildInit /\ op = "none" /\ ret = <<>>
    /\ arg \in {[df |-> Indexed(rows), manufacturer |-> T_KBS, club_type |-> "iron"] :
                   rows \in SeqsUpTo(RowPool, MaxBatch)}

CallNormalizeDataframe ==
    Call("normalize_dataframe",
         normalize_dataframe(arg.df, arg.manufacturer, arg.club_type))

SpecBatch == InitBatch /\ [][CallNormalizeDataframe]_vars

\* C3: normalize_dataframe never aborts, whatever the cells of its rows
\* hold: every row gives a record or a reported error, and the call
\* returns.
C3_BatchNeverAborts ==
    op = "normalize_dataframe" =>
        /\ ret.exc = "none"
        /\ Len(ret.specs) + Len(ret.errors) = Len(arg.df)

(***************************************************************************)
(* The build: stored weights and deduplication                             *)
(***************************************************************************)

\* The rows of every file of data/raw
RowsOf(dir) == Concat(AsSeq([i \in 1..Len(dir) |-> dir[i].rows]))

\* x is a weight the schema admits
WeightInRange(x) == x > 0 /\ x < 300

\* The cell holds the number x, as a number or as its text
HoldsNumber(v, x) == v = Num(x) \/ (x >= 0 /\ v = Str(NatText(x)))

\* None of the weight columns of the row holds a weight in range
RowWithBadWeight(row) ==
    \A i \in 1..Len(WeightAliases) :
        \/ NoWeightIn(RowGet(row, WeightAliases[i]))
        \/ RowGet(row, WeightAliases[i]).k = "num"
              /\ ~WeightInRange(RowGet(row, WeightAliases[i]).n)

\* C1: after a build over any source tables, every stored record has a
\* weight, strictly between 0 and 300; a row whose weight is missing or
\* out of range gives no stored record: the store has at most as many
\* records as there are rows with a weight in range, and every stored
\* weight is held by a weight column of a source row.
C1_StoredWeights ==
    dbFile.exists =>
        /\ \A i \in 1..Len(dbFile.data) :
              /\ dbFile.data[i].weight_grams.k = "num"
              /\ WeightInRange(dbFile.data[i].weight_grams.n)
              /\ \E j \in 1..Len(RowsOf(rawDir)) : \E a \in 1..Len(WeightAliases) :
                    HoldsNumber(RowGet(RowsOf(rawDir)[j], WeightAliases[a]),
                                dbFile.data[i].weight_grams.n)
        /\ Len(dbFile.data) <=
              Cardinality({j \in 1..Len(RowsOf(rawDir)) : ~RowWithBadWeight(RowsOf(rawDir)[j])})

\* C1 witness: a build over two rows, one of 350 g, stored one record
C1_Witness ==
    /\ pc = "done"
    /\ Len(RowsOf(rawDir)) = 2
    /\ \E j \in 1..2 : RowGet(RowsOf(rawDir)[j], "weight") = Num(350)
    /\ Len(dbFile.data) = 1

\* The positions of the records that are the first of their display_name
FirstOfName(specs) ==
    SelectSeq(Positions(specs),
              LAMBDA i : \A j \in 1..(i - 1) : display_name(specs[j]) # display_name(specs[i]))

\* C2: the deduplication keeps, of every display_name in the concatenated
\* list, the first record in processing order and drops the later ones;
\* the stored list has no display_name twice and keeps the order of the
\* records it retains.
C2_DedupFirstWins ==
    pc \in {"save", "done"} =>
        /\ Len(unique_specs) = Len(FirstOfName(all_specs))
        /\ \A k \in 1..Len(unique_specs) :
              unique_specs[k] = all_specs[FirstOfName(all_specs)[k]]
        /\ pc = "done" =>
              /\ Len(dbFile.data) = Len(unique_specs)
              /\ \A k \in 1..Len(unique_specs) : dbFile.data[k] = model_dump(unique_specs[k])
              /\ \A k \in 1..Len(dbFile.data) : \A l \in 1..Len(dbFile.data) :
                    display_name(dbFile.data[k]) = display_name(dbFile.data[l]) => k = l

\* C2 witness: two records of one display_name and different weights were
\* normalized, and the first of them is the one stored
C2_Witness ==
    /\ pc = "done"
    /\ Len(all_specs) = 2
    /\ all_specs[1] # all_specs[2]
    /\ display_name(all_specs[1]) = display_name(all_specs[2])
    /\ dbFile.data = <<model_dump(all_specs[1])>>

(***************************************************************************)
(* The store: save_database and load_database                              *)
(***************************************************************************)

\* At most this many records in a list that is saved and in a store file
MaxStore == 2

\* The keyword arguments of the records that are saved
StoreArgs ==
    {[manufacturer |-> Str(m), model |-> Str(T_Tour), generation |-> None,
      club_type |-> "iron", flex |-> f, weight_grams |-> Num(62), length_inches |-> None,
      torque_degrees |-> Num(3), launch |-> "Mid", spin |-> NoValue,
      butt_diameter_inches |-> None, tip_diameter_inches |-> None,
      tip_stiff |-> NoValue, kickpoint |-> NoValue,
      material |-> Text_graphite, msrp_usd |-> None] :
        m \in {T_KBS, T_Fujikura_Padded, <<" "," ">>}, f \in {"Stiff", "TX"}}

\* The instances the constructor gives for them
StoreSpecs == {ShaftSpec(a).val : a \in {b \in StoreArgs : ShaftSpec(b).exc = "none"}}

\* A record of a store file as save_database writes it
GoodItem == model_dump(ShaftSpec(CHOOSE a \in StoreArgs :
                                     a.manufacturer = Str(T_KBS) /\ a.flex = "Stiff").val)

\* The objects of the store files that are read: a record as it is saved,
\* and records with a weight of 0, a flex outside the enumeration, an empty
\* model, and a manufacturer of spaces
StoreItems ==
    {GoodItem,
     [GoodItem EXCEPT !.weight_grams = Num(0)],
     [GoodItem EXCEPT !.flex = "Wobbly"],
     [GoodItem EXCEPT !.model = <<>>],
     [GoodItem EXCEPT !.manufacturer = <<" "," ">>]}

StoreFiles ==
    {Missing} \cup {[exists |-> TRUE, data |-> d, complete |-> TRUE] :
                       d \in SeqsUpTo(StoreItems, MaxStore)}

InitStore ==
    /\ rawDir = <<>> /\ pc = "idle" /\ csvIdx = 0 /\ all_specs = <<>> /\ unique_specs = <<>>
    /\ dbFile \in StoreFiles
    /\ op = "none" /\ ret = <<>>
    /\ arg \in SeqsUpTo(StoreSpecs, MaxStore)

\* save_database(arg)
CallSaveDatabase ==
    /\ op = "none"
    /\ op' = "save_database"
    /\ dbFile' = save_database(arg)
    /\ ret' = Returned(NoValue)
    /\ UNCHANGED <<arg, rawDir, pc, csvIdx, all_specs, unique_specs>>

\* load_database(), before or after the save
CallLoadDatabase ==
    /\ op \in {"none", "save_database"}
    /\ op' = "load_database"
    /\ ret' = load_database(dbFile)
    /\ UNCHANGED <<arg, dbFile, rawDir, pc, csvIdx, all_specs, unique_specs>>

NextStore == CallSaveDatabase \/ CallLoadDatabase

SpecStore == InitStore /\ [][NextStore]_vars

\* C11: for every list of valid ShaftSpec records, save_database followed
\* by load_database on the same file returns a list equal to the saved
\* one, field for field and in the same order.
C11_RoundTrip ==
    (op = "load_database" /\ dbFile = save_database(arg)) =>
        (ret.exc = "none" /\ ret.val = arg)

\* The object breaks a constraint of the schema
ItemFailsSchema(item) ==
    \/ Len(item.manufacturer) = 0
    \/ Len(item.model) = 0
    \/ item.flex \notin Flex
    \/ item.club_type \notin ClubType
    \/ ~(item.weight_grams.k = "num" /\ WeightInRange(item.weight_grams.n))

\* C13: load_database returns an empty list without an error when the store
\* file does not exist; for a store file that holds a record failing schema
\* validation it raises, and returns neither an empty nor a partial list.
C13_LoadMissingOrCorrupt ==
    op = "load_database" =>
        /\ ~dbFile.exists => (ret.exc = "none" /\ ret.val = <<>>)
        /\ (dbFile.exists /\ \E i \in 1..Len(dbFile.data) : ItemFailsSchema(dbFile.data[i]))
              => ret.exc = "ValidationError"

\* C13 witness: a file of a good record followed by one of weight 0 was
\* loaded
C13_Witness ==
    /\ op = "load_database"
    /\ dbFile.exists
    /\ dbFile.data = <<GoodItem, [GoodItem EXCEPT !.weight_grams = Num(0)]>>
    /\ ret.exc = "ValidationError"

(***************************************************************************)
(* The build: sources without a manufacturer column                        *)
(***************************************************************************)

\* The files of data/raw that have a manufacturer column
WithManufacturer(dir) == {i \in 1..Len(dir) : "manufacturer" \in dir[i].columns}

\* The display names of the records in the store file
StoredNames == {display_name(dbFile.data[k]) : k \in 1..Len(dbFile.data)}

\* C12: in a build over several sources, a source with no manufacturer
\* column ends the processing of that source only: the other sources are
\* processed and their records are written to the store.
C12_OtherSourcesStored ==
    (/\ pc \in {"raised", "done"}
     /\ Len(rawDir) >= 2
     /\ WithManufacturer(rawDir) # {}
     /\ \A i \in WithManufacturer(rawDir) : load_and_normalize(rawDir[i]).exc = "none")
    => /\ pc = "done"
       /\ dbFile.exists
       /\ \A i \in WithManufacturer(rawDir) :
             \A k \in 1..Len(load_and_normalize(rawDir[i]).val) :
                 display_name(load_and_normalize(rawDir[i]).val[k]) \in StoredNames

(***************************************************************************)
(* compare.py: filter_shafts                                               *)
(*                                                                         *)
(* A DataFrame of the store is the sequence of its rows, each with the     *)
(* columns the filters read.  A list option is [given, items]: None when   *)
(* not given; a numeric option is a cell, None or a number.                *)
(***************************************************************************)

NoList == [given |-> FALSE, items |-> <<>>]

List(items) == [given |-> TRUE, items |-> items]

\* "if manufacturers:" holds for a list that is given and not empty
ListTruthy(l) == l.given /\ l.items # <<>>

\* Series.isin(values)
IsIn(x, l) == \E i \in 1..Len(l.items) : l.items[i] = x

\* Series.notna(), None being NaN in a column of numbers
NotNa(v) == v.k = "num"

\* if manufacturers: filtered = filtered[filtered["manufacturer"].isin(manufacturers)]
FilterManufacturers(df, o) ==
    IF ListTruthy(o.manufacturers)
    THEN SelectSeq(df, LAMBDA r : IsIn(r.manufacturer, o.manufacturers)) ELSE df

\* if club_types: filtered = filtered[filtered["club_type"].isin(club_types)]
FilterClubTypes(df, o) ==
    IF ListTruthy(o.club_types)
    THEN SelectSeq(df, LAMBDA r : IsIn(r.club_type, o.club_types)) ELSE df

\* if flexes: filtered = filtered[filtered["flex"].isin(flexes)]
FilterFlexes(df, o) ==
    IF ListTruthy(o.flexes) THEN SelectSeq(df, LAMBDA r : IsIn(r.flex, o.flexes)) ELSE df

\* if weight_min is not None: filtered = filtered[filtered["weight_grams"] >= weight_min]
FilterWeightMin(df, o) ==
    IF o.weight_min # None
    THEN SelectSeq(df, LAMBDA r : NotNa(r.weight_grams) /\ r.weight_grams.n >= o.weight_min.n)
    ELSE df

\* A weight_max that is an exclusive bound
FilterWeightMax_Exclusive(df, o) ==
    IF o.weight_max # None
    THEN SelectSeq(df, LAMBDA r : NotNa(r.weight_grams) /\ r.weight_grams.n < o.weight_max.n)
    ELSE df

\* if weight_max is not None: filtered = filtered[filtered["weight_grams"] <= weight_max]
FilterWeightMax(df, o) ==
    IF o.weight_max # None
    THEN SelectSeq(df, LAMBDA r : NotNa(r.weight_grams) /\ r.weight_grams.n <= o.weight_max.n)
    ELSE df

\* if torque_min is not None: filtered = filtered[filtered["torque_degrees"].notna()
\*                                       & (filtered["torque_degrees"] >= torque_min)]
FilterTorqueMin(df, o) ==
    IF o.torque_min # None
    THEN SelectSeq(df, LAMBDA r : NotNa(r.torque_degrees) /\ r.torque_degrees.n >= o.torque_min.n)
    ELSE df

\* if torque_max is not None: ... & (filtered["torque_degrees"] <= torque_max)]
FilterTorqueMax(df, o) ==
    IF o.torque_max # None
    THEN SelectSeq(df, LAMBDA r : NotNa(r.torque_degrees) /\ r.torque_degrees.n <= o.torque_max.n)
    ELSE df

\* if launch_profiles: filtered = filtered[filtered["launch"].isin(launch_profiles)]
FilterLaunch(df, o) ==
    IF ListTruthy(o.launch_profiles)
    THEN SelectSeq(df, LAMBDA r : IsIn(r.launch, o.launch_profiles)) ELSE df

\* if spin_profiles: filtered = filtered[filtered["spin"].isin(spin_profiles)]
FilterSpin(df, o) ==
    IF ListTruthy(o.spin_profiles)
    THEN SelectSeq(df, LAMBDA r : IsIn(r.spin, o.spin_profiles)) ELSE df

\* if price_max is not None: filtered = filtered[filtered["msrp_usd"].notna()
\*                                      & (filtered["msrp_usd"] <= price_max)]
FilterPriceMax(df, o) ==
    IF o.price_max # None
    THEN SelectSeq(df, LAMBDA r : NotNa(r.msrp_usd) /\ r.msrp_usd.n <= o.price_max.n)
    ELSE df

\* filter_shafts(df, ...): the filters in the order of the code
filter_shafts(df, o) ==
    FilterPriceMax(FilterSpin(FilterLaunch(FilterTorqueMax(FilterTorqueMin(
        FilterWeightMax(FilterWeightMin(FilterFlexes(FilterClubTypes(
            FilterManufacturers(df, o), o), o), o), o), o), o), o), o), o)

FrameRow(m, ct, f, w, tq, l, s, p) ==
    [manufacturer |-> m, club_type |-> ct, flex |-> f, weight_grams |-> Num(w),
     torque_degrees |-> tq, launch |-> l, spin |-> s, msrp_usd |-> p]

\* The rows of the store the frames are taken from, by weight
BaseFrame ==
    <<FrameRow(T_KBS, "iron", "Stiff", 55, None, "Mid", "Low", None),
      FrameRow(T_KBS, "woods", "TX", 60, Num(2), "Low", NoValue, Num(400)),
      FrameRow(T_KBS, "iron", "Stiff", 62, Num(3), "Mid", NoValue, Num(401)),
      FrameRow(T_Fuji, "woods", "X-Stiff", 67, Num(4), "High", "Low", Num(350)),
      FrameRow(T_Fuji, "woods", "Stiff", 70, None, NoValue, "Mid", Num(0)),
      FrameRow(T_Fuji, "iron", "Stiff", 75, Num(5), NoValue, "High", Num(500))>>

\* The rows of BaseFrame at the positions in S, in order
Rows(S) == SelectSeq(BaseFrame, LAMBDA r : \E i \in S : BaseFrame[i] = r)

Reverse(s) == AsSeq([i \in 1..Len(s) |-> s[Len(s) + 1 - i]])

\* Every selection of rows of BaseFrame in its order, and BaseFrame reversed
Frames == {Rows(S) : S \in SUBSET (1..Len(BaseFrame))} \cup {Reverse(BaseFrame)}

FilterOptions ==
    {[manufacturers |-> ms, club_types |-> cts, flexes |-> fs, weight_min |-> wmin,
      weight_max |-> wmax, torque_min |-> tmin, torque_max |-> tmax,
      launch_profiles |-> ls, spin_profiles |-> ss, price_max |-> pm] :
        ms \in {NoList, List(<<>>), List(<<T_KBS>>)},
        cts \in {NoList, List(<<"iron">>)},
        fs \in {NoList, List(<<"Stiff", "TX">>)},
        wmin \in {None, Num(60)},
        wmax \in {None, Num(70)},
        tmin \in {None, Num(3)},
        tmax \in {None, Num(4)},
        ls \in {NoList, List(<<"Mid", "High">>)},
        ss \in {NoList, List(<<"Low">>)},
        pm \in {None, Num(400)}}

InitFilter ==
    /\ BuildInit /\ op = "none" /\ ret = <<>>
    /\ arg \in {[df |-> d, opts |-> o] : d \in Frames, o \in FilterOptions}

CallFilterShafts == Call("filter_shafts", Returned(filter_shafts(arg.df, arg.opts)))

SpecFilter == InitFilter /\ [][CallFilterShafts]_vars

\* The value lies in a list option that is supplied
InSupplied(x, l) == (l.given /\ l.items # <<>>) => x \in Range(l.items)

\* The cell holds a number that is at least the supplied bound
AtLeast(v, bound) == bound.k = "num" => (v.k = "num" /\ v.n >= bound.n)

\* The cell holds a number that is at most the supplied bound
AtMost(v, bound) == bound.k = "num" => (v.k = "num" /\ v.n <= bound.n)

\* The record satisfies every option that is supplied
Satisfies(r, o) ==
    /\ InSupplied(r.manufacturer, o.manufacturers)
    /\ InSupplied(r.club_type, o.club_types)
    /\ InSupplied(r.flex, o.flexes)
    /\ AtLeast(r.weight_grams, o.weight_min)
    /\ AtMost(r.weight_grams, o.weight_max)
    /\ AtLeast(r.torque_degrees, o.torque_min)
    /\ AtMost(r.torque_degrees, o.torque_max)
    /\ InSupplied(r.launch, o.launch_profiles)
    /\ InSupplied(r.spin, o.spin_profiles)
    /\ AtMost(r.msrp_usd, o.price_max)

\* C14: filter_shafts returns exactly the input records that satisfy every
\* supplied option, in input order: weight, torque and price bounds are
\* inclusive, torque and price bounds leave out the records without a
\* torque or a price, and list options are set membership.
C14_FilterExact ==
    op = "filter_shafts" =>
        /\ ret.exc = "none"
        /\ ret.val = SelectSeq(arg.df, LAMBDA r : Satisfies(r, arg.opts))

\* C14 witness: weights 55, 62, 67, 75 filtered with 60..70 gave 62, 67
C14_Witness ==
    /\ op = "filter_shafts"
    /\ arg.df = Rows({1, 3, 4, 6})
    /\ arg.opts = [manufacturers |-> NoList, club_types |-> NoList, flexes |-> NoList,
                   weight_min |-> Num(60), weight_max |-> Num(70), torque_min |-> None,
                   torque_max |-> None, launch_profiles |-> NoList,
                   spin_profiles |-> NoList, price_max |-> None]
    /\ ret.val = Rows({3, 4})

(***************************************************************************)
(* The build over a store left by an earlier build                         *)
(***************************************************************************)

\* The store file an earlier build left
OldStore == [exists |-> TRUE, data |-> <<GoodItem>>, complete |-> TRUE]

InitRebuild ==
    /\ rawDir = <<>> /\ pc = "idle" /\ csvIdx = 0 /\ all_specs = <<>> /\ unique_specs = <<>>
    /\ dbFile \in {Missing, OldStore}
    /\ CallIdle

SpecRebuild == InitRebuild /\ [][Next]_vars

\* C15: in one run of the build the store file is written at most once,
\* and only after every source has been processed and the deduplication is
\* done; a run that stops early, on an error in a source or for want of
\* sources, leaves the store file as it was.
C15_WrittenOnceAtEnd ==
    [][/\ (dbFile' # dbFile) =>
              /\ pc = "save" /\ pc' = "done"
              /\ csvIdx > Len(rawDir)
              /\ unique_specs = Deduplicate(all_specs)
              /\ dbFile' = save_database(unique_specs)
       /\ pc \in {"done", "raised", "returned"} => dbFile' = dbFile]_vars

\* C15 witness: the second of two sources failed after the first was
\* processed, and the old store is still there
C15_Witness ==
    /\ pc = "raised"
    /\ Len(rawDir) = 2
    /\ csvIdx = 2
    /\ all_specs # <<>>
    /\ dbFile = OldStore

(***************************************************************************)
(* normalize_row: the aliases of weight and flex                           *)
(***************************************************************************)

\* C17: normalize_row takes the weight from the first of the columns
\* weight, weight_grams, wt that the row has, in that order: a later alias
\* is consulted only when every earlier one is absent from the row.
C17_FirstPresentWins ==
    op = "normalize_row" =>
        /\ WeightColumns(arg.row) = <<>> => ret.exc # "none"
        /\ (WeightColumns(arg.row) # <<>> /\ ret.exc = "none") =>
              HoldsNumber(arg.row[Head(WeightColumns(arg.row))], ret.val.weight_grams.n)

T_banana == <<"b","a","n","a","n","a">>

T_wobbly == <<"w","o","b","b","l","y">>

\* Rows over the flex columns flex, stiffness and Flex and the weight
\* columns; None leaves the column out of the row
FlexRowInputs ==
    {Present([flex |-> f, stiffness |-> st, Flex |-> cf, weight |-> w, wt |-> x,
              model |-> m]) :
        f \in {None, NaN, Num(0), Str(<<>>), Str(<<"X">>), Str(T_banana)},
        st \in {None, Str(<<"R">>), Str(T_wobbly)},
        cf \in {None, Str(<<"X">>)},
        w \in {None, Num(62), Str(T_heavy)},
        x \in {None, Num(70)},
        m \in {None, Str(T_Tour)}}

InitRowFlex ==
    /\ BuildInit /\ op = "none" /\ ret = <<>>
    /\ arg \in {[row |-> r, manufacturer |-> T_KBS, club_type |-> "woods"] :
                   r \in FlexRowInputs}

SpecRowFlex == InitRowFlex /\ [][CallNormalizeRow]_vars

\* The call was refused for the flex of the row
FlexRefused == ret = RaisedMsg("ValueError", "Cannot normalize flex")

\* The call was not refused for the flex, and a record it returned is Stiff
StiffByDefault == ~FlexRefused /\ (ret.exc = "none" => ret.val.flex = "Stiff")

\* The flex columns the row has, of the columns cols in their order
FlexColumns(row, cols) == SelectSeq(cols, LAMBDA c : c \in DOMAIN row)

\* Values that are no flex: text outside the aliases, and a number
NoFlexIn(v) == v \in {Str(T_banana), Str(T_wobbly), Num(0)}

MaxTable == 2

\* The cells of the club_type column, each with the club type that its
\* trimmed lower-cased label has in the lookup (woods if it has none)
ClubCells ==
    { [cell |-> Str(<<" ","I","r","o","n"," ">>), type |-> "iron"],
      [cell |-> Str(<<"W","E","D","G","E">>), type |-> "wedge"],
      [cell |-> Str(<<"p","u","t","t","e","r">>), type |-> "putter"],
      [cell |-> Str(<<"d","r","i","v","e","r">>), type |-> "woods"],
      [cell |-> NaN, type |-> "woods"],
      [cell |-> Num(3), type |-> "woods"] }

\* The rows of a table, row i weighing 60 + i grams
ClubRows(cells) ==
    AsSeq([i \in 1..Len(cells) |->
              BuildRow(Str(cells[i].manufacturer), cells[i].club.cell, Str(T_Tour), NaN,
                       Str(<<"S">>), Num(60 + i), NaN, NaN)])

ClubTables ==
    {[columns |-> c, rows |-> AsSeq([i \in 1..Len(cells) |-> Project(ClubRows(cells)[i], c)]),
      types |-> AsSeq([i \in 1..Len(cells) |->
                          IF "club_type" \in c THEN cells[i].club.type ELSE "woods"])] :
        c \in {BuildColumns, BuildColumns \ {"club_type"}},
        cells \in SeqsUpTo([manufacturer : {T_KBS, T_Fuji}, club : ClubCells], MaxTable)}

InitClub == BuildInit /\ op = "none" /\ ret = <<>> /\ arg \in ClubTables

CallLoadAndNormalize == Call("load_and_normalize", load_and_normalize(arg))

SpecClub == InitClub /\ [][CallLoadAndNormalize]_vars

\* The records returned for row i of the table
RecordsOfRow(i) == {j \in 1..Len(ret.val) : ret.val[j].weight_grams = Num(60 + i)}

\* C18: load_and_normalize gives every row the club type that its trimmed
\* lower-cased club_type label has in the six-value lookup, woods for an
\* unrecognized label and woods for every row of a table without the
\* club_type column; each row is in exactly one club-type group, so it
\* has exactly one record.
C18_ClubTypeByLabel ==
    op = "load_and_normalize" =>
        /\ ret.exc = "none"
        /\ \A i \in 1..Len(arg.rows) :
              /\ Cardinality(RecordsOfRow(i)) = 1
              /\ \A j \in RecordsOfRow(i) : ret.val[j].club_type = arg.types[i]


(***************************************************************************)
(* save_database and load_database running concurrently on one store file. *)
(* Path.write_text opens the file for writing, which empties it, writes    *)
(* the text and closes the file; load_database tests that the file exists  *)
(* and then reads it.  pc holds the position of each of the two calls.     *)
(***************************************************************************)

\* The records that are saved and were saved before: valid instances that
\* are read back as they were written
SavedSpecs == {s \in StoreSpecs : s.manufacturer # <<>>}

\* The file with the first n records of the text written and the rest not yet
PartlyWritten(specs, n) ==
    [exists |-> TRUE, data |-> SubSeq(save_database(specs).data, 1, n), complete |-> FALSE]

InitConcurrent ==
    /\ rawDir = <<>> /\ csvIdx = 0 /\ all_specs = <<>> /\ unique_specs = <<>>
    /\ arg \in [specs : SeqsUpTo(SavedSpecs, MaxStore),
                previous : SeqsUpTo(SavedSpecs, 1)]
    /\ dbFile \in {save_database(arg.previous)} \cup (IF arg.previous = <<>> THEN {Missing} ELSE {})
    /\ pc = [save_database |-> "call", load_database |-> "call"]
    /\ op = "none" /\ ret = <<>>

\* write_text: open(mode="w") creates the file or cuts it to length 0
SaveOpen ==
    /\ pc.save_database = "call"
    /\ dbFile' = PartlyWritten(arg.specs, 0)
    /\ pc' = [pc EXCEPT !.save_database = "opened"]
    /\ UNCHANGED <<arg, op, ret, rawDir, csvIdx, all_specs, unique_specs>>

\* write_text: a part of the text reaches the file when the buffer is flushed
SaveFlush ==
    /\ pc.save_database = "opened"
    /\ \E n \in 1..(Len(arg.specs) - 1) :
          /\ Len(dbFile.data) < n
          /\ dbFile' = PartlyWritten(arg.specs, n)
    /\ UNCHANGED <<arg, pc, op, ret, rawDir, csvIdx, all_specs, unique_specs>>

\* write_text: the rest of the text is written and the file closed
SaveClose ==
    /\ pc.save_database = "opened"
    /\ dbFile' = save_database(arg.specs)
    /\ pc' = [pc EXCEPT !.save_database = "done"]
    /\ UNCHANGED <<arg, op, ret, rawDir, csvIdx, all_specs, unique_specs>>

\* load_database: if not filepath.exists(): return []
LoadExists ==
    /\ pc.load_database = "call"
    /\ IF dbFile.exists
       THEN pc' = [pc EXCEPT !.load_database = "read"] /\ UNCHANGED <<op, ret>>
       ELSE /\ pc' = [pc EXCEPT !.load_database = "done"]
            /\ op' = "load_database"
            /\ ret' = load_database(dbFile)
    /\ UNCHANGED <<arg, dbFile, rawDir, csvIdx, all_specs, unique_specs>>

\* load_database: the file is read and its text parsed
LoadRead ==
    /\ pc.load_database = "read"
    /\ pc' = [pc EXCEPT !.load_database = "done"]
    /\ op' = "load_database"
    /\ ret' = load_database(dbFile)
    /\ UNCHANGED <<arg, dbFile, rawDir, csvIdx, all_specs, unique_specs>>

NextConcurrent == SaveOpen \/ SaveFlush \/ SaveClose \/ LoadExists \/ LoadRead

SpecConcurrent == InitConcurrent /\ [][NextConcurrent]_vars

\* C19: a load_database that runs concurrently with a save_database on
\* the same store file returns the complete previous store or the complete
\* new store; it never observes a partly written or emptied file.
C19_LoadSeesWholeStore ==
    op = "load_database" =>
        /\ ret.exc = "none"
        /\ ret.val \in {arg.previous, arg.specs}


(***************************************************************************)
(* The build over catalogues whose shafts are named alike                  *)
(***************************************************************************)

\* The rows the catalogue files are filled from
CatalogPool ==
    { \* KBS, model Tour, generation TR
      BuildRow(Str(T_KBS), Str(<<"i","r","o","n">>), Str(T_Tour), Str(T_TR),
               Str(<<"S">>), Num(60), NaN, NaN),
      \* KBS, model "Tour TR"
      BuildRow(Str(T_KBS), Str(<<"i","r","o","n">>), Str(T_Tour \o <<" ">> \o T_TR), NaN,
               Str(<<"S">>), Num(62), NaN, NaN),
      \* manufacturer "KBS Tour", model TR
      BuildRow(Str(T_KBS \o <<" ">> \o T_Tour), Str(<<"i","r","o","n">>), Str(T_TR), NaN,
               Str(<<"S">>), Num(64), NaN, NaN),
      \* KBS, model Tour, generation TR, another flex
      BuildRow(Str(T_KBS), Str(<<"i","r","o","n">>), Str(T_Tour), Str(T_TR),
               Str(<<"X">>), Num(66), NaN, NaN),
      \* KBS, model Tour, generation TR, the flex spelled out
      BuildRow(Str(T_KBS), Str(<<"i","r","o","n">>), Str(T_Tour), Str(T_TR),
               Str(<<"s","t","i","f","f">>), Num(68), NaN, NaN) }

\* The tables of at most n rows, with or without a generation column
CatalogTables(n) ==
    {[columns |-> c, rows |-> AsSeq([i \in 1..Len(rs) |-> Project(rs[i], c)])] :
        c \in {BuildColumns, BuildColumns \ {"generation"}},
        rs \in SeqsUpTo(CatalogPool, n) \ {<<>>}}

\* data/raw with at most f files of at most r rows together
RECURSIVE CatalogDirs(_, _)
CatalogDirs(f, r) ==
    IF f = 0 THEN {<<>>}
    ELSE {<<>>} \cup UNION {{<<t>> \o d : d \in CatalogDirs(f - 1, r - Len(t.rows))} :
                               t \in CatalogTables(r)}

InitCatalog ==
    /\ rawDir \in CatalogDirs(MaxFiles, MaxRows)
    /\ dbFile = Missing /\ pc = "idle" /\ csvIdx = 0
    /\ all_specs = <<>> /\ unique_specs = <<>>
    /\ CallIdle

NextCatalog == MainStart \/ MainLoadAndNormalize \/ MainDedup \/ MainSave

SpecCatalog == InitCatalog /\ [][NextCatalog]_vars

\* The manufacturer, model, generation and flex of a record
FourFields(spec) == <<spec.manufacturer, spec.model, spec.generation, spec.flex>>

\* C20: the deduplication of the build drops a record only when an
\* earlier record has the same manufacturer, model, generation and flex;
\* two records that differ in one of the four have different display
\* names and are both kept.
C20_DropsOnlySameShaft ==
    pc \in {"save", "done"} =>
        \A i \in 1..Len(all_specs) :
            /\ \A j \in 1..(i - 1) :
                  FourFields(all_specs[j]) # FourFields(all_specs[i])
                      => display_name(all_specs[j]) # display_name(all_specs[i])
            /\ (\A k \in 1..Len(unique_specs) : unique_specs[k] # all_specs[i])
                  => \E j \in 1..(i - 1) : FourFields(all_specs[j]) = FourFields(all_specs[i])

====
